---- MODULE Spec2Model ----
(***************************************************************************)
(* DogMatch backend: the Flask handler recommend_breeds (app.py), the      *)
(* process-wide predictor cache get_predictor (app.py) and the inference   *)
(* pipeline DogMatchPredictor.predict (dogmatch_predictor.py).             *)
(*                                                                         *)
(* Numbers are kept as integers in hundredths (7.0 is 700), probabilities  *)
(* in ten-thousandths after round(p, 4), similarities in thousandths after *)
(* round(s, 3).                                                            *)
(***************************************************************************)
EXTENDS Integers, Sequences, FiniteSets, TLC

\* ------------------------------------------------------------------ bounds
\* Rows of the similarity index / breed catalog (len(X_enhanced), len(breed_names)).
CatalogSize == 4
\* Group labels the classifier was fitted on (len(model.classes_)).
NGroups == 2
\* Columns of the example payload that a request changes.
MaxEdits == 2
\* Request threads of the threaded server calling get_predictor.
NThreads == 2
\* DogMatchPredictor() constructions one run of the threaded model follows.
MaxLoads == 3

\* ------------------------------------------------------------------ helpers
Abs(x) == IF x < 0 THEN -x ELSE x

Min2(a, b) == IF a < b THEN a ELSE b

Max2(a, b) == IF a > b THEN a ELSE b

Range(s) == {s[i] : i \in DOMAIN s}

\* Python's round(): the quotient num/den to the nearest integer, ties to even.
RoundDiv(num, den) ==
    LET q == num \div den
        r == num % den
    IN  IF 2 * r < den THEN q
        ELSE IF 2 * r > den THEN q + 1
        ELSE IF q % 2 = 0 THEN q ELSE q + 1

RECURSIVE SumOver(_, _)
SumOver(f, S) ==
    IF S = {} THEN 0
    ELSE LET x == CHOOSE y \in S : TRUE
         IN  f[x] + SumOver(f, S \ {x})

\* ------------------------------------------------------------------ values
\* A JSON value of the request body, or the content of one DataFrame cell.
Absent == [kind |-> "absent", n |-> 0, s |-> ""]

Num(x) == [kind |-> "num", n |-> x, s |-> ""]

Str(t) == [kind |-> "str", n |-> 0, s |-> t]

\* A non-finite float (json.loads accepts Infinity; float() converts it).
Inf == [kind |-> "inf", n |-> 0, s |-> ""]

\* Strings float() converts, with their value in hundredths.
NumericStrings == {"7", "2"}

ParseString(t) == IF t = "7" THEN 700 ELSE 200

\* float(v) succeeds: v is a number, or a string float() can parse.
FloatOk(v) ==
    \/ v.kind \in {"num", "inf"}
    \/ v.kind = "str" /\ v.s \in NumericStrings

\* ------------------------------------------------------------------ schema
\* feature_info['feature_columns'], in training order.
feature_columns ==
    << "Size", "Exercise Requirements (hrs/day)", "Good with Children",
       "Intelligence Rating (1-10)", "Training Difficulty (1-10)",
       "Shedding Level", "Health Issues Risk", "Friendly Rating (1-10)" >>

categorical_columns ==
    << "Size", "Good with Children", "Shedding Level", "Health Issues Risk" >>

numeric_columns ==
    << "Exercise Requirements (hrs/day)", "Intelligence Rating (1-10)",
       "Training Difficulty (1-10)", "Friendly Rating (1-10)" >>

derived_cols ==
    << "Family_Compatibility_Score", "Maintenance_Score", "Energy_Score",
       "Intelligence_Training_Ratio", "Size_Score" >>

\* label_encoders[col].classes_: the sorted vocabulary; the code of a value
\* is its position, from 0.
classes_(col) ==
    CASE col = "Size" ->
           << "Giant", "Large", "Medium", "Small", "Small-Medium", "Toy" >>
      [] col = "Good with Children" -> << "No", "With Training", "Yes" >>
      [] col = "Shedding Level" -> << "High", "Low", "Moderate", "Very High" >>
      [] col = "Health Issues Risk" -> << "High", "Low", "Moderate" >>
      [] OTHER -> << >>

\* user_input[col] in label_encoders[col].classes_
InVocabulary(col, v) == v.kind = "str" /\ v.s \in Range(classes_(col))

\* label_encoders[col].transform([value])[0], for a value of the vocabulary.
Transform(col, t) == (CHOOSE i \in DOMAIN classes_(col) : classes_(col)[i] = t) - 1

\* predict's expected_columns: feature_columns, then the derived columns
\* not already among them.
expected_columns ==
    feature_columns \o SelectSeq(derived_cols, LAMBDA c : c \notin Range(feature_columns))

AllColumns == Range(feature_columns) \cup Range(derived_cols)

\* ------------------------------------------------------------------ requests
\* The example payload of predict's docstring and of test_app._sample_payload.
example_input ==
    [c \in Range(feature_columns) |->
        CASE c = "Size" -> Str("Medium")
          [] c = "Exercise Requirements (hrs/day)" -> Num(200)
          [] c = "Good with Children" -> Str("Yes")
          [] c = "Intelligence Rating (1-10)" -> Num(700)
          [] c = "Training Difficulty (1-10)" -> Num(300)
          [] c = "Shedding Level" -> Str("Moderate")
          [] c = "Health Issues Risk" -> Str("Low")
          [] c = "Friendly Rating (1-10)" -> Num(800)]

\* What a request may put in a column instead of the example's value: nothing,
\* a value outside the vocabulary, another value of the vocabulary; for a
\* numeric column nothing, a string float() rejects, a string float() parses,
\* another number, an infinite number.
Alternatives(c) ==
    CASE c = "Size" -> {Absent, Str("Huge"), Str("Large")}
      [] c = "Good with Children" -> {Absent, Str("Maybe"), Str("No")}
      [] c = "Shedding Level" -> {Absent, Str("None"), Str("Very High")}
      [] c = "Health Issues Risk" -> {Absent, Str("Severe"), Str("High")}
      [] c = "Exercise Requirements (hrs/day)" ->
           {Absent, Str("abc"), Str("2"), Num(400), Inf}
      [] c = "Intelligence Rating (1-10)" -> {Absent, Str("abc"), Str("7"), Num(900)}
      [] c = "Training Difficulty (1-10)" -> {Absent, Str("abc"), Num(100)}
      [] c = "Friendly Rating (1-10)" -> {Absent, Str("abc"), Str("7"), Num(500)}

\* The inputs and the top_k of the calls a caller repeats: the example, the
\* example with a numeric string, and the example with an unknown category.
RepeatInputs ==
    { example_input,
      [example_input EXCEPT !["Intelligence Rating (1-10)"] = Str("7")],
      [example_input EXCEPT !["Size"] = Str("Huge")] }

\* base with every column of S replaced by one of its alternatives.
RECURSIVE Edited(_, _)
Edited(base, S) ==
    IF S = {} THEN {base}
    ELSE LET c == CHOOSE x \in S : TRUE
         IN  UNION { Edited([base EXCEPT ![c] = v], S \ {c}) : v \in Alternatives(c) }

\* The request bodies: the example payload with at most MaxEdits columns changed.
Inputs ==
    UNION { Edited(example_input, S) :
              S \in {T \in SUBSET Range(feature_columns) : Cardinality(T) <= MaxEdits} }

\* ------------------------------------------------------------------ errors
\* A Python exception: its class, the prefixes put before its message, the
\* message, the columns and allowed values the message shows, and the class
\* of the exception it was raised from (its __context__).
NoExc ==
    [type |-> "", prefix |-> << >>, text |-> "", cols |-> {}, allowed |-> << >>, cause |-> ""]

ValueError(text, cols, allowed) ==
    [type |-> "ValueError", prefix |-> << >>, text |-> text, cols |-> cols,
     allowed |-> allowed, cause |-> ""]

\* predict's  except Exception as e: raise Exception(f"Erro ao fazer predição: {e}")
\* The new exception shows the old one's message and keeps it as its context.
WrapException(e) ==
    [type |-> "Exception", prefix |-> << "Erro ao fazer predição" >> \o e.prefix,
     text |-> e.text, cols |-> e.cols, allowed |-> e.allowed, cause |-> e.type]

\* The messages of the input checks.
ValidationTexts == {"Features ausentes", "deve ser um número", "Valor inválido para"}

\* ------------------------------------------------------------------ validation
Present(row, c) == c \in DOMAIN row /\ row[c].kind # "absent"

\* The element of sequence cols at the least of the positions hits, as a set:
\* the column at which a  for col in cols  loop stops.
FirstOf(cols, hits) ==
    IF hits = {} THEN {}
    ELSE {cols[CHOOSE i \in hits : \A j \in hits : i <= j]}

MissingFeatures(user_input) == {c \in Range(feature_columns) : ~Present(user_input, c)}

NotNumeric(user_input) ==
    FirstOf(numeric_columns,
            {i \in DOMAIN numeric_columns :
                /\ Present(user_input, numeric_columns[i])
                /\ ~FloatOk(user_input[numeric_columns[i]])})

\* _validate_input: the exception it raises, NoExc when it returns.
ValidateInput(user_input) ==
    IF MissingFeatures(user_input) # {}
    THEN ValueError("Features ausentes", MissingFeatures(user_input), << >>)
    ELSE IF NotNumeric(user_input) # {}
    THEN ValueError("deve ser um número", NotNumeric(user_input), << >>)
    ELSE NoExc

\* ------------------------------------------------------------------ encoding
\* The first categorical column whose value is outside its vocabulary.
InvalidCategory(user_input, df) ==
    FirstOf(categorical_columns,
            {i \in DOMAIN categorical_columns :
                /\ Present(df, categorical_columns[i])
                /\ ~InVocabulary(categorical_columns[i], user_input[categorical_columns[i]])})

\* The data frame after the encoding loop (no value outside a vocabulary).
EncodedFrame(user_input, df) ==
    [c \in DOMAIN df |->
        IF c \in Range(categorical_columns) /\ Present(df, c) /\ InVocabulary(c, user_input[c])
        THEN Num(100 * Transform(c, user_input[c].s))
        ELSE df[c]]

\* The encoding loop of predict: the exception it raises, NoExc when it ends.
EncodeError(user_input, df) ==
    LET bad == InvalidCategory(user_input, df)
    IN  IF bad = {} THEN NoExc
        ELSE LET c == CHOOSE x \in bad : TRUE
             IN  ValueError("Valor inválido para", bad, classes_(c))

\* ------------------------------------------------------------------ derived features
\* cls.strip().lower() over the vocabularies.
StripLower(t) ==
    CASE t = "Giant" -> "giant" [] t = "Large" -> "large" [] t = "Medium" -> "medium"
      [] t = "Small" -> "small" [] t = "Small-Medium" -> "small-medium" [] t = "Toy" -> "toy"
      [] t = "No" -> "no" [] t = "With Training" -> "with training" [] t = "Yes" -> "yes"
      [] t = "High" -> "high" [] t = "Low" -> "low" [] t = "Moderate" -> "moderate"
      [] t = "Very High" -> "very high"
      [] OTHER -> t

\* name_to_weight.get(name, default) of the four weight tables, in hundredths.
NameWeight(col, name) ==
    CASE col = "Good with Children" ->
           (CASE name = "yes" -> 100 [] name = "with training" -> 50 [] name = "no" -> 0
              [] OTHER -> 0)
      [] col = "Shedding Level" ->
           (CASE name = "low" -> 0 [] name = "moderate" -> 50 [] name = "high" -> 100
              [] name = "very high" -> 150 [] OTHER -> 50)
      [] col = "Health Issues Risk" ->
           (CASE name = "low" -> 0 [] name = "moderate" -> 50 [] name = "high" -> 100
              [] OTHER -> 50)
      [] col = "Size" ->
           (CASE name = "toy" -> 100 [] name = "small" -> 100 [] name = "small-medium" -> 150
              [] name = "medium" -> 200 [] name = "large" -> 300 [] name = "giant" -> 400
              [] OTHER -> 200)

\* _encoded_weights(column, ...)[code]: the weight of the class with that code.
EncodedWeight(col, cell) ==
    NameWeight(col, StripLower(classes_(col)[(cell.n \div 100) + 1]))

\* Arithmetic on a cell raises TypeError when the cell holds a string.
IsStr(v) == v.kind = "str"

IsInf(v) == v.kind = "inf"

HasColumns(df, cols) == \A c \in cols : Present(df, c)

\* One formula of _create_derived_features: [skip, raised, col, cell].
DerivedStep(i, df) ==
    LET ex == df["Exercise Requirements (hrs/day)"]
        iq == df["Intelligence Rating (1-10)"]
        td == df["Training Difficulty (1-10)"]
        fr == df["Friendly Rating (1-10)"]
        Step(col, sources, strs, infs, value) ==
            [skip |-> ~HasColumns(df, sources),
             raised |-> HasColumns(df, sources) /\ \E v \in strs : IsStr(v),
             col |-> col,
             cell |-> IF \E v \in infs : IsInf(v) THEN Inf ELSE Num(value)]
    IN  CASE i = 1 ->
               Step("Family_Compatibility_Score",
                    {"Good with Children", "Friendly Rating (1-10)", "Training Difficulty (1-10)"},
                    {fr, td}, {fr, td},
                    (EncodedWeight("Good with Children", df["Good with Children"]) * 40
                       + fr.n * 10 + (1000 - td.n) * 10) \div 100)
          [] i = 2 ->
               Step("Maintenance_Score",
                    {"Shedding Level", "Exercise Requirements (hrs/day)", "Health Issues Risk"},
                    {ex}, {ex},
                    (EncodedWeight("Shedding Level", df["Shedding Level"]) * 30
                       + ex.n * 20
                       + EncodedWeight("Health Issues Risk", df["Health Issues Risk"]) * 30) \div 100)
          [] i = 3 ->
               Step("Energy_Score",
                    {"Exercise Requirements (hrs/day)", "Intelligence Rating (1-10)"},
                    {ex, iq}, {ex, iq},
                    (ex.n * 40 + iq.n * 10) \div 100)
          [] i = 4 ->
               Step("Intelligence_Training_Ratio",
                    {"Intelligence Rating (1-10)", "Training Difficulty (1-10)"},
                    {iq, td}, {iq, td},
                    (iq.n * 100) \div (td.n + 100))
          [] i = 5 ->
               Step("Size_Score", {"Size"}, {}, {},
                    EncodedWeight("Size", df["Size"]))

\* The formulas from the i-th on: an exception in one ends the function, which
\* returns the frame with the columns added so far.
RECURSIVE DerivedFrom(_, _)
DerivedFrom(i, df) ==
    IF i > Len(derived_cols) THEN df
    ELSE LET st == DerivedStep(i, df)
         IN  IF st.raised THEN df
             ELSE IF st.skip THEN DerivedFrom(i + 1, df)
             ELSE DerivedFrom(i + 1, [df EXCEPT ![st.col] = st.cell])

\* _create_derived_features(user_df)
CreateDerivedFeatures(df) == DerivedFrom(1, df)

\* ------------------------------------------------------------------ align and scale
\* user_df.reindex(columns=expected_columns, fill_value=0)
Reindex(df) ==
    [c \in Range(expected_columns) |-> IF Present(df, c) THEN df[c] ELSE Num(0)]

\* robust_scaler.center_ and scale_ of a numeric column (hundredths; units).
center_(col) ==
    CASE col = "Exercise Requirements (hrs/day)" -> 200
      [] col = "Intelligence Rating (1-10)" -> 600
      [] col = "Training Difficulty (1-10)" -> 500
      [] col = "Friendly Rating (1-10)" -> 700

scale_(col) == IF col = "Friendly Rating (1-10)" THEN 1 ELSE 2

\* float conversion of a cell by the scaler's input check.
CellFloat(v) == IF v.kind = "str" THEN ParseString(v.s) ELSE v.n

\* robust_scaler.transform raises on a non-finite value.
ScaleError(df) ==
    IF \E c \in Range(numeric_columns) : IsStr(df[c]) /\ df[c].s \notin NumericStrings
    THEN ValueError("could not convert string to float", {}, << >>)
    ELSE IF \E c \in Range(numeric_columns) : IsInf(df[c])
    THEN ValueError("Input contains infinity", {}, << >>)
    ELSE NoExc

\* user_df[numeric_columns] = robust_scaler.transform(user_df[numeric_columns])
ScaledFrame(df) ==
    [c \in DOMAIN df |->
        IF c \in Range(numeric_columns)
        THEN Num((CellFloat(df[c]) - center_(c)) \div scale_(c))
        ELSE df[c]]

\* ------------------------------------------------------------------ catalog and capabilities
\* X_enhanced: the rows the similarity index and the classifier were fitted on.
X_enhanced(i) == [c \in Range(expected_columns) |-> 100 * (i - 1)]

\* breed_labels[idx] and group_labels[idx], aligned with the rows of X_enhanced.
breed_labels(i) == i

group_labels(i) == (((i - 1) \div 2) % NGroups) + 1

\* model.classes_: the group labels in the classifier's native order.
model_classes == [g \in 1..NGroups |-> g]

\* n_neighbors of the fitted KNN classifier.
n_neighbors == Min2(2, CatalogSize)

\* The distance of a row to catalog row i (Manhattan, in hundredths).
Distance(df, i) ==
    SumOver([c \in Range(expected_columns) |-> Abs(df[c].n - X_enhanced(i)[c])],
            Range(expected_columns))

\* A variant of NearestFrom that orders the rows farthest first.
RECURSIVE FarthestFrom(_, _)
FarthestFrom(df, rows) ==
    IF rows = {} THEN << >>
    ELSE LET worst == CHOOSE i \in rows :
                         \A j \in rows :
                            \/ Distance(df, i) > Distance(df, j)
                            \/ Distance(df, i) = Distance(df, j) /\ i <= j
         IN  << worst >> \o FarthestFrom(df, rows \ {worst})

\* The catalog rows ordered by increasing distance to df, nearest first.
RECURSIVE NearestFrom(_, _)
NearestFrom(df, rows) ==
    IF rows = {} THEN << >>
    ELSE LET best == CHOOSE i \in rows :
                        \A j \in rows :
                           \/ Distance(df, i) < Distance(df, j)
                           \/ Distance(df, i) = Distance(df, j) /\ i <= j
         IN  << best >> \o NearestFrom(df, rows \ {best})

\* similarity_model.kneighbors(user_df, n_neighbors=n): (distances[0], indices[0]).
KNeighbors(df, n) ==
    LET order == SubSeq(NearestFrom(df, 1..CatalogSize), 1, n)
    IN  [distances |-> [i \in 1..n |-> Distance(df, order[i])], indices |-> order]

\* A capability's input check rejects a row that holds a non-number.
RowError(df) ==
    IF \E c \in DOMAIN df : df[c].kind # "num"
    THEN ValueError("Input contains non-finite or non-numeric values", {}, << >>)
    ELSE NoExc

\* model.predict_proba(user_df)[0]: per class, the share of the n_neighbors
\* nearest rows that carry its label, as [num, den].
PredictProba(df) ==
    LET near == Range(KNeighbors(df, n_neighbors).indices)
    IN  [g \in 1..NGroups |->
            [num |-> Cardinality({i \in near : group_labels(i) = model_classes[g]}),
             den |-> n_neighbors]]

\* ------------------------------------------------------------------ ranking
FracLess(a, b) == a.num * b.den < b.num * a.den

\* np.argsort(values): the indices by increasing value, equal values in
\* index order (numpy sorts short arrays by insertion).
RECURSIVE ArgsortFrom(_, _)
ArgsortFrom(values, left) ==
    IF left = {} THEN << >>
    ELSE LET least == CHOOSE i \in left :
                         \A j \in left :
                            \/ FracLess(values[i], values[j])
                            \/ ~FracLess(values[j], values[i]) /\ i <= j
         IN  << least >> \o ArgsortFrom(values, left \ {least})

Argsort(values) == ArgsortFrom(values, DOMAIN values)

Reversed(s) == [i \in 1..Len(s) |-> s[Len(s) + 1 - i]]

\* A variant of TopIndices that does not reverse the sorted indices.
TopIndicesAscending(probas, top_k) ==
    SubSeq(Argsort(probas), 1, Min2(top_k, Len(probas)))

\* np.argsort(probas)[::-1][:top_k]
TopIndices(probas, top_k) ==
    SubSeq(Reversed(Argsort(probas)), 1, Min2(top_k, Len(probas)))

\* _generate_group_predictions(user_df, top_k), the classifier having predict_proba.
GenerateGroupPredictions(df, top_k) ==
    LET probas == PredictProba(df)
        top == TopIndices(probas, top_k)
    IN  [r \in 1..Len(top) |->
            [group |-> model_classes[top[r]],
             score |-> RoundDiv(10000 * probas[top[r]].num, probas[top[r]].den),
             rank |-> r]]

\* 1 / (1 + d), d in hundredths.
RawSimilarity(d) == [num |-> 100, den |-> 100 + d]

\* A variant of MaxSimilarity that takes the least similarity.
MaxSimilarityLeast(distances) ==
    LET sims == [i \in DOMAIN distances |-> RawSimilarity(distances[i])]
    IN  IF Len(distances) > 0
        THEN sims[CHOOSE i \in DOMAIN sims : \A j \in DOMAIN sims : ~FracLess(sims[j], sims[i])]
        ELSE [num |-> 1, den |-> 1]

\* similarities.max() if len(similarities) > 0 else 1
MaxSimilarity(distances) ==
    LET sims == [i \in DOMAIN distances |-> RawSimilarity(distances[i])]
    IN  IF Len(distances) > 0
        THEN sims[CHOOSE i \in DOMAIN sims : \A j \in DOMAIN sims : ~FracLess(sims[i], sims[j])]
        ELSE [num |-> 1, den |-> 1]

\* neighbor_count = min(top_k, len(self.X_enhanced))
NeighborCount(top_k) == Min2(top_k, CatalogSize)

\* _find_similar_breeds(user_df, top_k), kneighbors having answered.
FindSimilarBreeds(df, top_k) ==
    LET nb == KNeighbors(df, NeighborCount(top_k))
        max_sim == MaxSimilarity(nb.distances)
        kept == Min2(Len(nb.distances), top_k)
    IN  [i \in 1..kept |->
            LET raw == RawSimilarity(nb.distances[i])
            IN  [breed |-> breed_labels(nb.indices[i]),
                 group |-> group_labels(nb.indices[i]),
                 similarity |->
                    IF max_sim.num > 0
                    THEN RoundDiv(1000 * raw.num * max_sim.den, raw.den * max_sim.num)
                    ELSE 0,
                 rank |-> i]]

\* ------------------------------------------------------------------ profile
\* _calculate_user_profile(user_df): the fields whose column exists, rounded
\* to 2 decimals or to 1 decimal (kept in hundredths).
ProfileSource(field) ==
    CASE field = "family_friendly" -> "Family_Compatibility_Score"
      [] field = "energy_level" -> "Energy_Score"
      [] field = "maintenance_level" -> "Maintenance_Score"
      [] field = "intelligence_level" -> "Intelligence Rating (1-10)"
      [] field = "size_preference" -> "Size_Score"

ProfileFields ==
    << "family_friendly", "energy_level", "maintenance_level",
       "intelligence_level", "size_preference" >>

OneDecimal(field) == field \in {"intelligence_level", "size_preference"}

CalculateUserProfile(df) ==
    IF \E f \in Range(ProfileFields) : Present(df, ProfileSource(f)) /\ IsStr(df[ProfileSource(f)])
    THEN << >>
    ELSE [f \in {g \in Range(ProfileFields) : Present(df, ProfileSource(g))} |->
            IF OneDecimal(f) THEN 10 * RoundDiv(df[ProfileSource(f)].n, 10)
            ELSE df[ProfileSource(f)].n]

\* ------------------------------------------------------------------ state
VARIABLES
    predictor,    \* app.predictor: the cached DogMatchPredictor, or None
    pc,           \* where the request being served stands
    entry,        \* who called predict: "http" (recommend_breeds) or "direct"
    user_input,   \* the request body / predict's user_input
    top_k,        \* the requested top_k, as given
    k,            \* predict's clamped k
    user_df,      \* predict's one-row data frame, by column
    stages,       \* the pipeline stages this call of predict has run, in order
    calls,        \* the model capabilities this request has invoked, in order
    outcome,      \* of predict: "none", "returned" or "raised"
    result,       \* the dictionary predict returned
    raised,       \* the exception predict raised
    response,     \* the HTTP response sent
    tpc,          \* per server thread: where its get_predictor() call stands
    tnew,         \* per server thread: the instance it constructed
    tret,         \* per server thread: what its get_predictor() call gave
    loads,        \* DogMatchPredictor() constructions that succeeded so far
    load_failed,  \* "Erro ao carregar predictor" was printed: a construction raised
    kept          \* what a caller of predict keeps of an earlier call

reqvars == << pc, entry, user_input, top_k, k, user_df, stages, calls, outcome, result,
              raised, response >>

threadvars == << tpc, tnew, tret, loads, load_failed >>

vars == << predictor, reqvars, threadvars, kept >>

\* predictor = None, and a constructed instance: which construction it was,
\* and whether its classifier has predict_proba.
None == [loaded |-> FALSE, id |-> 0, hasProba |-> FALSE]

Instance(id, hasProba) == [loaded |-> TRUE, id |-> id, hasProba |-> hasProba]

\* request.args.get("top_k", default=5)
DefaultTopK == 5

\* A top_k as given: an integer, or text int() rejects.
IntTopK(n) == [int |-> TRUE, n |-> n]

TextTopK == [int |-> FALSE, n |-> 0]

TopKValues == {IntTopK(n) : n \in (-1)..(CatalogSize + 1)} \cup {IntTopK(DefaultTopK), TextTopK}

RepeatTopK == {IntTopK(2), IntTopK(CatalogSize + 1)}

EmptyBody == [c \in Range(feature_columns) |-> Absent]

Bodies == Inputs \cup {EmptyBody}

NoFrame == [c \in AllColumns |-> Absent]

NoResult == [predictions |-> << >>, predictions_grouped |-> << >>, user_profile |-> << >>]

NoResponse == [status |-> 0, error |-> "", cols |-> {}, allowed |-> << >>, body |-> NoResult]

ErrorResponse(status, error, cols, allowed) ==
    [status |-> status, error |-> error, cols |-> cols, allowed |-> allowed, body |-> NoResult]

\* What DogMatchPredictor() may do: raise, or give an instance whose
\* classifier has, or has not, predict_proba.
LoadOutcomes == {"raise", "proba", "no_proba"}

\* What a get_predictor() call gave its caller: nothing yet, the instance it
\* returned, or the exception it raised.
NoReturn == [status |-> "none", value |-> None]

Returned(inst) == [status |-> "returned", value |-> inst]

RaisedLoad == [status |-> "raised", value |-> None]

\* The caller keeps nothing yet / keeps a call of predict: the instance it was
\* made on, its arguments, and what it returned or raised.
NoCall ==
    [set |-> FALSE, predictor |-> None, user_input |-> EmptyBody,
     top_k |-> IntTopK(DefaultTopK), outcome |-> "none", result |-> NoResult,
     raised |-> NoExc]

KeptCall(inst, body, tk, out, res, exc) ==
    [set |-> TRUE, predictor |-> inst, user_input |-> body, top_k |-> tk,
     outcome |-> out, result |-> res, raised |-> exc]

Init ==
    /\ predictor = None
    /\ pc = "idle"
    /\ entry = "none"
    /\ user_input = EmptyBody
    /\ top_k = IntTopK(DefaultTopK)
    /\ k = 0
    /\ user_df = NoFrame
    /\ stages = << >>
    /\ calls = << >>
    /\ outcome = "none"
    /\ result = NoResult
    /\ raised = NoExc
    /\ response = NoResponse
    /\ tpc = [t \in 1..NThreads |-> "idle"]
    /\ tnew = [t \in 1..NThreads |-> None]
    /\ tret = [t \in 1..NThreads |-> NoReturn]
    /\ loads = 0
    /\ load_failed = FALSE
    /\ kept = NoCall

\* ------------------------------------------------------------------ get_predictor
\* get_predictor() run without interruption: [raised, value], the value
\* being the new content of the global.
GetPredictor(cache, load) ==
    IF cache.loaded THEN [raised |-> FALSE, value |-> cache]
    ELSE IF load = "raise" THEN [raised |-> TRUE, value |-> cache]
    ELSE [raised |-> FALSE, value |-> Instance(1, load = "proba")]

\* ------------------------------------------------------------------ recommend_breeds
\* A variant of TopKAccepted that lets zero through.
TopKAcceptedNonNegative(tk) == tk.int /\ tk.n >= 0

\* int(top_k_param) succeeded and the value is positive.
TopKAccepted(tk) == tk.int /\ tk.n > 0

\* The checks of recommend_breeds before it calls predict: the error
\* response of the first that fails, NoResponse when all pass. gp is what
\* its get_predictor() call did.
RecommendChecks(body, tk, gp) ==
    IF body = EmptyBody
    THEN ErrorResponse(400, "JSON body é obrigatório", {}, << >>)
    ELSE IF gp.raised
    THEN ErrorResponse(500, "Erro interno", {}, << >>)
    ELSE IF ~TopKAccepted(tk)
    THEN ErrorResponse(400, "top_k deve ser inteiro positivo", {}, << >>)
    ELSE IF MissingFeatures(body) # {}
    THEN ErrorResponse(400, "Campos obrigatórios ausentes", MissingFeatures(body), << >>)
    ELSE IF NotNumeric(body) # {}
    THEN ErrorResponse(400, "deve ser numérico", NotNumeric(body), << >>)
    ELSE IF InvalidCategory(body, body) # {}
    THEN ErrorResponse(400, "Valor inválido para", InvalidCategory(body, body),
                       classes_(CHOOSE c \in InvalidCategory(body, body) : TRUE))
    ELSE NoResponse

\* POST /api/recommend, up to the call of predict.
PostRecommend ==
    /\ pc = "idle"
    /\ \E body \in Bodies, tk \in TopKValues, load \in LoadOutcomes :
         LET gp == GetPredictor(predictor, load)
             early == RecommendChecks(body, tk, gp)
         IN  /\ predictor' = IF body = EmptyBody THEN predictor ELSE gp.value
             /\ entry' = "http"
             /\ user_input' = body
             /\ top_k' = tk
             /\ response' = early
             /\ pc' = IF early.status = 0 THEN "predict" ELSE "done"
             /\ load_failed' = (load_failed \/ (body # EmptyBody /\ gp.raised))
    /\ UNCHANGED << k, user_df, stages, calls, outcome, result, raised >>
    /\ UNCHANGED << tpc, tnew, tret, loads, kept >>

\* predictor.predict(user_input, top_k) called on the loaded predictor by
\* another caller than the HTTP layer (the module's __main__).
CallPredict ==
    /\ pc = "idle"
    /\ predictor.loaded
    /\ \E body \in Bodies, tk \in TopKValues :
         /\ user_input' = body
         /\ top_k' = tk
    /\ entry' = "direct"
    /\ pc' = "predict"
    /\ UNCHANGED << predictor, k, user_df, stages, calls, outcome, result, raised, response >>
    /\ UNCHANGED << threadvars, kept >>

\* GET /api/health
HealthCheck ==
    /\ pc = "idle"
    /\ \E load \in LoadOutcomes :
         LET gp == GetPredictor(predictor, load)
         IN  /\ predictor' = gp.value
             /\ response' = IF gp.raised
                            THEN ErrorResponse(500, "unhealthy", {}, << >>)
                            ELSE [NoResponse EXCEPT !.status = 200]
             /\ load_failed' = (load_failed \/ gp.raised)
    /\ entry' = "health"
    /\ pc' = "done"
    /\ UNCHANGED << user_input, top_k, k, user_df, stages, calls, outcome, result, raised >>
    /\ UNCHANGED << tpc, tnew, tret, loads, kept >>

\* GET /
Home ==
    /\ pc = "idle"
    /\ entry' = "home"
    /\ response' = [NoResponse EXCEPT !.status = 200]
    /\ pc' = "done"
    /\ UNCHANGED << predictor, user_input, top_k, k, user_df, stages, calls, outcome,
                    result, raised >>
    /\ UNCHANGED << threadvars, kept >>

\* The request is over; the server waits for the next one.
NextRequest ==
    /\ pc = "done"
    /\ pc' = "idle"
    /\ entry' = "none"
    /\ user_input' = EmptyBody
    /\ top_k' = IntTopK(DefaultTopK)
    /\ k' = 0
    /\ user_df' = NoFrame
    /\ stages' = << >>
    /\ calls' = << >>
    /\ outcome' = "none"
    /\ result' = NoResult
    /\ raised' = NoExc
    /\ response' = NoResponse
    /\ UNCHANGED predictor
    /\ UNCHANGED << threadvars, kept >>

\* ------------------------------------------------------------------ predict
\* k = max(1, min(int(top_k), len(self.breed_names)))
ClampK(n) == Max2(1, Min2(n, CatalogSize))

\* pd.DataFrame([user_input])
DataFrame(body) == [c \in AllColumns |-> IF c \in DOMAIN body THEN body[c] ELSE Absent]

\* predict's except clause: the exception leaves predict wrapped.
Raise(e) ==
    /\ outcome' = "raised"
    /\ raised' = WrapException(e)
    /\ pc' = "returned"

Continue(next) ==
    /\ pc' = next
    /\ UNCHANGED << outcome, raised >>

\* A variant of PredictValidate that queries both models before it validates.
PredictValidateLate ==
    /\ pc = "predict"
    /\ stages' = Append(stages, "validate")
    /\ calls' = calls \o << "predict_proba", "kneighbors" >>
    /\ IF ~top_k.int
       THEN /\ Raise(ValueError("invalid literal for int()", {}, << >>))
            /\ UNCHANGED << k, user_df >>
       ELSE /\ k' = ClampK(top_k.n)
            /\ IF ValidateInput(user_input) # NoExc
               THEN Raise(ValidateInput(user_input)) /\ UNCHANGED user_df
               ELSE Continue("encode") /\ user_df' = DataFrame(user_input)
    /\ UNCHANGED << predictor, entry, user_input, top_k, result, response >>
    /\ UNCHANGED << threadvars, kept >>

\* Lines 91-96: clamp k, validate, build the frame.
PredictValidate ==
    /\ pc = "predict"
    /\ stages' = Append(stages, "validate")
    /\ IF ~top_k.int
       THEN /\ Raise(ValueError("invalid literal for int()", {}, << >>))
            /\ UNCHANGED << k, user_df >>
       ELSE /\ k' = ClampK(top_k.n)
            /\ IF ValidateInput(user_input) # NoExc
               THEN Raise(ValidateInput(user_input)) /\ UNCHANGED user_df
               ELSE Continue("encode") /\ user_df' = DataFrame(user_input)
    /\ UNCHANGED << predictor, entry, user_input, top_k, calls, result, response >>
    /\ UNCHANGED << threadvars, kept >>

\* A variant of PredictEncode that goes on to the alignment, past the derived
\* features.
PredictEncodeSkipsDerive ==
    /\ pc = "encode"
    /\ stages' = Append(stages, "encode")
    /\ IF EncodeError(user_input, user_df) # NoExc
       THEN Raise(EncodeError(user_input, user_df)) /\ UNCHANGED user_df
       ELSE Continue("align") /\ user_df' = EncodedFrame(user_input, user_df)
    /\ UNCHANGED << predictor, entry, user_input, top_k, k, calls, result, response >>
    /\ UNCHANGED << threadvars, kept >>

\* Lines 98-104: label encoding of the categorical columns.
PredictEncode ==
    /\ pc = "encode"
    /\ stages' = Append(stages, "encode")
    /\ IF EncodeError(user_input, user_df) # NoExc
       THEN Raise(EncodeError(user_input, user_df)) /\ UNCHANGED user_df
       ELSE Continue("derive") /\ user_df' = EncodedFrame(user_input, user_df)
    /\ UNCHANGED << predictor, entry, user_input, top_k, k, calls, result, response >>
    /\ UNCHANGED << threadvars, kept >>

\* Line 107
PredictDerive ==
    /\ pc = "derive"
    /\ stages' = Append(stages, "derive")
    /\ user_df' = CreateDerivedFeatures(user_df)
    /\ Continue("align")
    /\ UNCHANGED << predictor, entry, user_input, top_k, k, calls, result, response >>
    /\ UNCHANGED << threadvars, kept >>

\* Lines 110-121
PredictAlign ==
    /\ pc = "align"
    /\ stages' = Append(stages, "align")
    /\ user_df' = [c \in AllColumns |-> Reindex(user_df)[c]]
    /\ Continue("scale")
    /\ UNCHANGED << predictor, entry, user_input, top_k, k, calls, result, response >>
    /\ UNCHANGED << threadvars, kept >>

\* Line 124
PredictScale ==
    /\ pc = "scale"
    /\ stages' = Append(stages, "scale")
    /\ IF ScaleError(user_df) # NoExc
       THEN Raise(ScaleError(user_df)) /\ UNCHANGED user_df
       ELSE Continue("rank_groups") /\ user_df' = ScaledFrame(user_df)
    /\ UNCHANGED << predictor, entry, user_input, top_k, k, calls, result, response >>
    /\ UNCHANGED << threadvars, kept >>

\* Line 126: _generate_group_predictions, which is not guarded by a try.
PredictGroups ==
    /\ pc = "rank_groups"
    /\ stages' = Append(stages, "rank_groups")
    /\ IF ~predictor.hasProba
       THEN /\ result' = [result EXCEPT !.predictions_grouped = << >>]
            /\ Continue("rank_breeds")
            /\ UNCHANGED calls
       ELSE /\ calls' = Append(calls, "predict_proba")
            /\ IF RowError(user_df) # NoExc
               THEN Raise(RowError(user_df)) /\ UNCHANGED result
               ELSE /\ result' = [result EXCEPT !.predictions_grouped =
                                     GenerateGroupPredictions(user_df, k)]
                    /\ Continue("rank_breeds")
    /\ UNCHANGED << predictor, entry, user_input, top_k, k, user_df, response >>
    /\ UNCHANGED << threadvars, kept >>

\* Line 129: _find_similar_breeds, whose try returns [] on any exception.
PredictBreeds ==
    /\ pc = "rank_breeds"
    /\ stages' = Append(stages, "rank_breeds")
    /\ calls' = Append(calls, "kneighbors")
    /\ result' = [result EXCEPT !.predictions =
                     IF RowError(user_df) # NoExc THEN << >>
                     ELSE FindSimilarBreeds(user_df, k)]
    /\ Continue("profile")
    /\ UNCHANGED << predictor, entry, user_input, top_k, k, user_df, response >>
    /\ UNCHANGED << threadvars, kept >>

\* Line 134
PredictProfile ==
    /\ pc = "profile"
    /\ stages' = Append(stages, "profile")
    /\ result' = [result EXCEPT !.user_profile = CalculateUserProfile(user_df)]
    /\ Continue("assemble")
    /\ UNCHANGED << predictor, entry, user_input, top_k, k, user_df, calls, response >>
    /\ UNCHANGED << threadvars, kept >>

\* A variant of PredictAssemble that leaves out the breed suggestions when the
\* caller already holds a result.
PredictAssembleOnce ==
    /\ pc = "assemble"
    /\ stages' = Append(stages, "assemble")
    /\ outcome' = "returned"
    /\ pc' = "returned"
    /\ result' = IF kept.set THEN [result EXCEPT !.predictions = << >>] ELSE result
    /\ UNCHANGED << predictor, entry, user_input, top_k, k, user_df, calls, raised,
                    response >>
    /\ UNCHANGED << threadvars, kept >>

\* Lines 137-144
PredictAssemble ==
    /\ pc = "assemble"
    /\ stages' = Append(stages, "assemble")
    /\ outcome' = "returned"
    /\ pc' = "returned"
    /\ UNCHANGED << predictor, entry, user_input, top_k, k, user_df, calls, result, raised,
                    response >>
    /\ UNCHANGED << threadvars, kept >>

\* Lines 201-212 of recommend_breeds: the response after predict.
PredictResponse(out, res, exc) ==
    IF out = "returned"
    THEN [NoResponse EXCEPT !.status = 200, !.body = res]
    ELSE IF exc.type = "ValueError"
    THEN ErrorResponse(400, "Erro de validação", exc.cols, exc.allowed)
    ELSE ErrorResponse(500, "Erro interno", exc.cols, exc.allowed)

RecommendRespond ==
    /\ pc = "returned"
    /\ entry = "http"
    /\ response' = PredictResponse(outcome, result, raised)
    /\ pc' = "done"
    /\ UNCHANGED << predictor, entry, user_input, top_k, k, user_df, stages, calls, outcome,
                    result, raised >>
    /\ UNCHANGED << threadvars, kept >>

\* The direct caller has predict's result or exception.
PredictReturn ==
    /\ pc = "returned"
    /\ entry = "direct"
    /\ pc' = "done"
    /\ UNCHANGED << predictor, entry, user_input, top_k, k, user_df, stages, calls, outcome,
                    result, raised, response >>
    /\ UNCHANGED << threadvars, kept >>

\* results = predictor.predict(...): predict returns to its direct caller,
\* which keeps what the call gave, to compare a later call with it.
Remember ==
    /\ pc = "returned"
    /\ entry = "direct"
    /\ ~kept.set
    /\ user_input \in RepeatInputs
    /\ top_k \in RepeatTopK
    /\ kept' = KeptCall(predictor, user_input, top_k, outcome, result, raised)
    /\ pc' = "done"
    /\ UNCHANGED << predictor, entry, user_input, top_k, k, user_df, stages, calls, outcome,
                    result, raised, response >>
    /\ UNCHANGED threadvars

Predict ==
    \/ PredictValidate
    \/ PredictEncode
    \/ PredictDerive
    \/ PredictAlign
    \/ PredictScale
    \/ PredictGroups
    \/ PredictBreeds
    \/ PredictProfile
    \/ PredictAssemble

Next ==
    \/ PostRecommend
    \/ CallPredict
    \/ HealthCheck
    \/ Home
    \/ Predict
    \/ RecommendRespond
    \/ PredictReturn
    \/ NextRequest

Spec == Init /\ [][Next]_vars

\* The same server, with a caller that keeps one call of predict.
NextRepeat ==
    \/ Next
    \/ Remember

SpecRepeat == Init /\ [][NextRepeat]_vars

\* ------------------------------------------------------------------ get_predictor, threaded
\* The server (app.run, threaded) serves each request on its own thread, and
\* a thread may be switched out between any two statements of get_predictor.

\* A request that needs the predictor arrives on thread t.
ThreadCall(t) ==
    /\ tpc[t] \in {"idle", "done"}
    /\ loads < MaxLoads
    /\ tpc' = [tpc EXCEPT ![t] = "check"]
    /\ tret' = [tret EXCEPT ![t] = NoReturn]
    /\ tnew' = [tnew EXCEPT ![t] = None]
    /\ UNCHANGED << predictor, loads, load_failed >>
    /\ UNCHANGED << reqvars, kept >>

\* Line 28: if predictor is None
ThreadCheck(t) ==
    /\ tpc[t] = "check"
    /\ tpc' = [tpc EXCEPT ![t] = IF predictor.loaded THEN "return" ELSE "construct"]
    /\ UNCHANGED << predictor, tnew, tret, loads, load_failed >>
    /\ UNCHANGED << reqvars, kept >>

\* Line 30, right-hand side: DogMatchPredictor() returns a new instance, or
\* raises (lines 31-33 re-raise to the caller).
ThreadConstruct(t) ==
    /\ tpc[t] = "construct"
    /\ \E load \in LoadOutcomes :
         IF load = "raise"
         THEN /\ tret' = [tret EXCEPT ![t] = RaisedLoad]
              /\ tpc' = [tpc EXCEPT ![t] = "done"]
              /\ load_failed' = TRUE
              /\ UNCHANGED << tnew, loads >>
         ELSE /\ tnew' = [tnew EXCEPT ![t] = Instance(loads + 1, load = "proba")]
              /\ loads' = loads + 1
              /\ tpc' = [tpc EXCEPT ![t] = "assign"]
              /\ UNCHANGED << tret, load_failed >>
    /\ UNCHANGED predictor
    /\ UNCHANGED << reqvars, kept >>

\* Line 30, the store into the global.
ThreadAssign(t) ==
    /\ tpc[t] = "assign"
    /\ predictor' = tnew[t]
    /\ tpc' = [tpc EXCEPT ![t] = "return"]
    /\ UNCHANGED << tnew, tret, loads, load_failed >>
    /\ UNCHANGED << reqvars, kept >>

\* Line 34: return predictor (the global, as it is now).
ThreadReturn(t) ==
    /\ tpc[t] = "return"
    /\ tret' = [tret EXCEPT ![t] = Returned(predictor)]
    /\ tpc' = [tpc EXCEPT ![t] = "done"]
    /\ UNCHANGED << predictor, tnew, loads, load_failed >>
    /\ UNCHANGED << reqvars, kept >>

ThreadNext ==
    \E t \in 1..NThreads :
        \/ ThreadCall(t)
        \/ ThreadCheck(t)
        \/ ThreadConstruct(t)
        \/ ThreadAssign(t)
        \/ ThreadReturn(t)

SpecThreads == Init /\ [][ThreadNext]_vars

\* ------------------------------------------------------------------ _calculate_user_profile alone
\* The frame predict hands to _calculate_user_profile for the example input.
example_frame ==
    ScaledFrame(Reindex(CreateDerivedFeatures(
        EncodedFrame(example_input, DataFrame(example_input)))))

\* What a frame given to _calculate_user_profile may hold in the source column
\* of a profile field: the value, nothing (no such column), or an object
\* round() rejects.
ProfileCells(c, choice) ==
    CASE choice = "value" -> example_frame[c]
      [] choice = "absent" -> Absent
      [] choice = "object" -> Str("abc")

ProfileFrames ==
    LET sources == {ProfileSource(f) : f \in Range(ProfileFields)}
    IN  { [c \in AllColumns |->
             IF c \in sources THEN ProfileCells(c, pick[c])
             ELSE IF c \in Range(expected_columns) THEN example_frame[c]
             ELSE Absent] :
          pick \in [sources -> {"value", "absent", "object"}] }

\* _calculate_user_profile is about to be called with a frame of ProfileFrames.
InitProfile ==
    /\ predictor = Instance(1, TRUE)
    /\ pc = "profile_call"
    /\ entry = "profile"
    /\ user_input = example_input
    /\ top_k = IntTopK(DefaultTopK)
    /\ k = 0
    /\ user_df \in ProfileFrames
    /\ stages = << >>
    /\ calls = << >>
    /\ outcome = "none"
    /\ result = NoResult
    /\ raised = NoExc
    /\ response = NoResponse
    /\ tpc = [t \in 1..NThreads |-> "idle"]
    /\ tnew = [t \in 1..NThreads |-> None]
    /\ tret = [t \in 1..NThreads |-> NoReturn]
    /\ loads = 1
    /\ load_failed = FALSE
    /\ kept = NoCall

\* profile = self._calculate_user_profile(user_df)
ProfileCall ==
    /\ pc = "profile_call"
    /\ result' = [result EXCEPT !.user_profile = CalculateUserProfile(user_df)]
    /\ outcome' = "returned"
    /\ pc' = "profile_done"
    /\ UNCHANGED << predictor, entry, user_input, top_k, k, user_df, stages, calls, raised,
                    response >>
    /\ UNCHANGED << threadvars, kept >>

SpecProfile == InitProfile /\ [][ProfileCall]_vars

\* ------------------------------------------------------------------ properties
\* The error class of the specification's taxonomy an exception belongs to,
\* as its catcher sees it: by its Python class and its message.
ErrorClass(e) ==
    IF e.type = "ValueError" /\ e.prefix = << >> /\ e.text = "Features ausentes"
    THEN "MissingFeatureError"
    ELSE IF e.type = "ValueError" /\ e.prefix = << >> /\ e.text = "deve ser um número"
    THEN "InvalidTypeError"
    ELSE IF e.type = "ValueError" /\ e.prefix = << >> /\ e.text = "Valor inválido para"
    THEN "InvalidCategoryError"
    ELSE IF e.type = "Exception" /\ e.prefix # << >> /\ e.prefix[1] = "Erro ao fazer predição"
    THEN "PredictionError"
    ELSE "other"

ValidationClasses == {"MissingFeatureError", "InvalidTypeError", "InvalidCategoryError"}

\* The input fails one of predict's input checks.
FailsValidation(body) ==
    \/ MissingFeatures(body) # {}
    \/ NotNumeric(body) # {}
    \/ InvalidCategory(body, body) # {}

\* The input passes every check and holds finite numbers only.
FiniteValid(body) ==
    /\ ~FailsValidation(body)
    /\ \A c \in DOMAIN body : ~IsInf(body[c])

Similarities == [i \in DOMAIN result.predictions |-> result.predictions[i].similarity]

Scores == [i \in DOMAIN result.predictions_grouped |-> result.predictions_grouped[i].score]

NonIncreasing(s) == \A i \in 1..(Len(s) - 1) : s[i] >= s[i + 1]

\* C1: the lazy initialization of the predictor cache is single-initialization:
\* at most one construction of the predictor succeeds, every get_predictor()
\* caller is given the same instance, and the cached instance is never
\* replaced once set.
C1_SingleInitialization ==
    [][/\ predictor.loaded => predictor' = predictor
       /\ loads' <= 1
       /\ \A t, u \in 1..NThreads :
            (tret'[t].status = "returned" /\ tret'[u].status = "returned")
               => tret'[t].value = tret'[u].value]_vars

\* C2: when predict fails one of its input checks (a missing column, a
\* non-numeric value, a value outside a vocabulary), the request has invoked
\* neither predict_proba nor kneighbors.
C2_ValidationBeforeModels ==
    (outcome = "raised" /\ raised.text \in ValidationTexts)
       => Range(calls) \cap {"predict_proba", "kneighbors"} = {}

C2_Witness ==
    /\ outcome = "raised"
    /\ raised.text = "Valor inválido para"
    /\ stages = << "validate", "encode" >>
    /\ calls = << >>

C4_CountAndOrder ==
    (outcome = "returned" /\ top_k.int /\ top_k.n \in 1..CatalogSize)
       => /\ Len(result.predictions) = Min2(top_k.n, CatalogSize)
          /\ NonIncreasing(Similarities)
          /\ \A i \in DOMAIN result.predictions : result.predictions[i].rank = i

C4_Witness ==
    /\ outcome = "returned"
    /\ top_k = IntTopK(3)
    /\ Len(result.predictions) = 3
    /\ Similarities[1] > Similarities[2]
    /\ Similarities[2] > Similarities[3]

\* C5: whenever predict returns a non-empty list of breed suggestions, the
\* first has similarity 1.0, and no suggestion has more.
C5_TopSimilarityIsOne ==
    (outcome = "returned" /\ Len(result.predictions) > 0)
       => /\ Similarities[1] = 1000
          /\ \A i \in DOMAIN Similarities : Similarities[i] \in 0..1000

C5_Witness ==
    /\ outcome = "returned"
    /\ Len(result.predictions) >= 2
    /\ Similarities[1] = 1000
    /\ Similarities[2] < 1000

\* C6: given an input that lacks a required column, predict fails with a
\* MissingFeatureError that names exactly the missing columns.
C6_MissingFeatureError ==
    (pc = "returned" /\ top_k.int /\ MissingFeatures(user_input) # {})
       => /\ outcome = "raised"
          /\ ErrorClass(raised) = "MissingFeatureError"
          /\ raised.cols = MissingFeatures(user_input)

\* C7: given an input whose value for a categorical column is outside the
\* column's vocabulary, predict fails with an InvalidCategoryError that carries
\* the whole vocabulary of that column; nothing is encoded and no result is
\* returned.
C7_InvalidCategoryError ==
    (/\ pc = "returned"
     /\ top_k.int
     /\ ValidateInput(user_input) = NoExc
     /\ InvalidCategory(user_input, user_input) # {})
       => /\ outcome = "raised"
          /\ ErrorClass(raised) = "InvalidCategoryError"
          /\ raised.cols = InvalidCategory(user_input, user_input)
          /\ \A c \in raised.cols : raised.allowed = classes_(c)
          /\ result = NoResult
          /\ user_df = DataFrame(user_input)

\* C8: a failure of predict is of one of two kinds a caller can tell apart:
\* a failed input check is a validation error and never a PredictionError, any
\* other failure is a PredictionError that carries its cause.
C8_DistinctFailureKinds ==
    (pc = "returned" /\ outcome = "raised")
       => IF top_k.int /\ FailsValidation(user_input)
          THEN ErrorClass(raised) \in ValidationClasses
          ELSE ErrorClass(raised) = "PredictionError" /\ raised.cause # ""

\* C9: the grouped predictions are in non-increasing order of probability,
\* ranked from 1, and every probability is between 0 and 1.
C9_GroupedSorted ==
    /\ NonIncreasing(Scores)
    /\ \A i \in DOMAIN Scores :
          /\ Scores[i] \in 0..10000
          /\ result.predictions_grouped[i].rank = i

C9_Witness ==
    /\ outcome = "returned"
    /\ Len(result.predictions_grouped) >= 2
    /\ Scores[1] > Scores[2]
    /\ result.predictions_grouped[1].rank = 1

\* C10: a POST /api/recommend whose body lacks a required column is answered
\* with status 400 and an error, predict not being called.  Violated when
\* get_predictor() raises for a non-empty body: the answer is 500.
C10_MissingFieldIs400 ==
    (entry = "http" /\ pc = "done" /\ MissingFeatures(user_input) # {})
       => /\ response.status = 400
          /\ response.error # ""
          /\ stages = << >>

\* C11: a failure to load an artifact is fatal: once a construction of the
\* predictor has raised, no request is answered successfully.  Violated: the
\* load is lazy, its failure is answered to one request only, and GET / or a
\* later request whose load succeeds is answered with 200.
C11_LoadFailureIsFatal ==
    load_failed => ~(pc = "done" /\ response.status = 200)

\* The stages of predict, in the order of its statements.
PipelineStages ==
    << "validate", "encode", "derive", "align", "scale", "rank_groups", "rank_breeds",
       "profile", "assemble" >>

C13_StageOrder ==
    /\ Len(stages) <= Len(PipelineStages)
    /\ stages = SubSeq(PipelineStages, 1, Len(stages))
    /\ outcome = "returned" => stages = PipelineStages
    /\ (outcome = "raised" /\ raised.text \in {"Features ausentes", "deve ser um número"})
          => stages = << "validate" >> /\ user_df = NoFrame
    /\ (outcome = "raised" /\ raised.text = "Valor inválido para")
          => stages = << "validate", "encode" >> /\ user_df = DataFrame(user_input)

C13_Witness ==
    /\ outcome = "returned"
    /\ stages = PipelineStages
    /\ calls = << "predict_proba", "kneighbors" >>
    /\ Len(result.predictions) = 3

\* The position of a group label in model.classes_.
ClassIndex(g) == CHOOSE i \in DOMAIN model_classes : model_classes[i] = g

\* C14: group labels the classifier gives equal probabilities are ranked in
\* the order of model.classes_: of two entries of the grouped predictions with
\* the same score, the one with the lower rank number has the lower class
\* index; ranks count from 1.  Violated: reversing the ascending argsort puts
\* tied labels in descending index order.
C14_TiesInLabelOrder ==
    \A i, j \in DOMAIN result.predictions_grouped :
        /\ result.predictions_grouped[i].rank = i
        /\ (i < j /\ Scores[i] = Scores[j])
              => ClassIndex(result.predictions_grouped[i].group)
                    < ClassIndex(result.predictions_grouped[j].group)

\* The raw numeric value of a validated input's column, in hundredths: the
\* number itself, or the number float() reads from the string.
RawNumber(body, col) == IF IsStr(body[col]) THEN ParseString(body[col].s) ELSE body[col].n

\* The table weight of the trimmed, lower-cased category name of a column.
TableWeight(body, col) == NameWeight(col, StripLower(body[col].s))

\* A derived feature, times 100 * divisor, by its formula over the raw values
\* (hundredths times hundredths, so that no division rounds).
FormulaTimes(body, col) ==
    LET ex == RawNumber(body, "Exercise Requirements (hrs/day)")
        iq == RawNumber(body, "Intelligence Rating (1-10)")
        td == RawNumber(body, "Training Difficulty (1-10)")
        fr == RawNumber(body, "Friendly Rating (1-10)")
    IN  CASE col = "Family_Compatibility_Score" ->
               [num |-> TableWeight(body, "Good with Children") * 40 + fr * 10
                           + (1000 - td) * 10,
                den |-> 100]
          [] col = "Maintenance_Score" ->
               [num |-> TableWeight(body, "Shedding Level") * 30 + ex * 20
                           + TableWeight(body, "Health Issues Risk") * 30,
                den |-> 100]
          [] col = "Energy_Score" -> [num |-> ex * 40 + iq * 10, den |-> 100]
          [] col = "Intelligence_Training_Ratio" -> [num |-> iq * 100, den |-> td + 100]
          [] col = "Size_Score" -> [num |-> TableWeight(body, "Size"), den |-> 1]

\* The numeric columns a derived feature is computed from.
FormulaSources(col) ==
    CASE col = "Family_Compatibility_Score" ->
           {"Friendly Rating (1-10)", "Training Difficulty (1-10)"}
      [] col = "Maintenance_Score" -> {"Exercise Requirements (hrs/day)"}
      [] col = "Energy_Score" ->
           {"Exercise Requirements (hrs/day)", "Intelligence Rating (1-10)"}
      [] col = "Intelligence_Training_Ratio" ->
           {"Intelligence Rating (1-10)", "Training Difficulty (1-10)"}
      [] col = "Size_Score" -> {}

\* The cell of the frame holds the value of the formula.
HoldsFormula(df, body, col) ==
    IF \E c \in FormulaSources(col) : IsInf(body[c])
    THEN IsInf(df[col])
    ELSE /\ df[col].kind = "num"
         /\ df[col].n * FormulaTimes(body, col).den = FormulaTimes(body, col).num

\* C15: for every validated input, each derived feature of the frame, before
\* the alignment and the scaling, equals its formula over the raw numeric
\* values and the table weights of the category names; for the example input
\* they are 1.9, 0.55, 1.5, 1.75 and 2.0.  Violated: a number given as a
\* string passes the validation, the arithmetic on it raises, the exception is
\* swallowed and that feature and the later ones are never computed.
C15_DerivedFormulas ==
    pc = "align" => \A c \in Range(derived_cols) : HoldsFormula(user_df, user_input, c)

\* The derived columns _create_derived_features computes for a validated
\* input: those its frame holds when it returns.
ComputedColumns(body) ==
    LET df == CreateDerivedFeatures(EncodedFrame(body, DataFrame(body)))
    IN  {c \in Range(derived_cols) : Present(df, c)}

\* C16: a derived feature that is skipped or whose computation fails does not
\* abort predict, and the user profile holds the summary field of a derived
\* score only if the score was computed.  Violated: the alignment fills every
\* derived column that is missing with 0 and the profile reports that 0.
C16_SkippedFeatureOmitted ==
    /\ pc = "align" => outcome = "none"
    /\ outcome = "returned"
          => \A f \in DOMAIN result.user_profile :
                ProfileSource(f) \in Range(derived_cols)
                   => ProfileSource(f) \in ComputedColumns(user_input)

====
